---- MODULE Spec2Model ----
(***************************************************************************)
(* A model of run_pipeline.py: FACDataPipeline, one run of main().         *)
(* The pipeline reads each configured source page by page                  *)
(* (fetch_data_stream), loads the pages into one DuckDB table per source   *)
(* (process_source), joins the tables and exports the result (merge_data), *)
(* and removes its temporary files in merge_data's finally block.          *)
(***************************************************************************)
EXTENDS Integers, Sequences, FiniteSets, TLC

\* ------------------------------------------------------------------ bounds

\* Fetches issued per source before the remote runs out of full pages.
MaxFetch == 2

\* Largest api_params['size'] a configuration gives a source.
MaxPageSize == 2

\* ------------------------------------------------------- values and batches

Digits == <<"0", "1", "2", "3", "4", "5", "6", "7", "8", "9">>

\* str(n) of a non-negative integer: its decimal digits.
RECURSIVE IntToStr(_)
IntToStr(n) ==
    IF n < 10 THEN Digits[n + 1]
    ELSE IntToStr(n \div 10) \o Digits[(n % 10) + 1]

\* df[col].astype(str), one cell: an integer becomes its decimal text, a
\* float its decimal text with ".0", a missing value "nan"; a text stays as
\* it is.
AsTypeStr(cell) ==
    CASE cell.t = "num" -> [cell EXCEPT !.t = "text", !.v = IntToStr(cell.v)]
      [] cell.t = "float" -> [cell EXCEPT !.t = "text", !.v = IntToStr(cell.v) \o ".0"]
      [] cell.t = "nan" -> [cell EXCEPT !.t = "text", !.v = "nan"]
      [] OTHER -> cell

\* The column layouts the remote answers with, how it types the key, and
\* whether the last record of a page of several leaves the key out.
Shapes ==
    { [cols |-> <<"report_id", "amount">>, ktype |-> "num", gap |-> FALSE],
      [cols |-> <<"audit_id", "amount">>, ktype |-> "num", gap |-> FALSE],
      [cols |-> <<"report_id">>, ktype |-> "text", gap |-> FALSE],
      [cols |-> <<"report_id", "amount">>, ktype |-> "num", gap |-> TRUE] }

\* The layouts a source answers with: the anchor source delivers its keys as
\* numbers, every other source delivers a key with each record.
ShapesOf(s) == {sh \in Shapes : IF s = 1 THEN sh.ktype = "num" ELSE ~sh.gap}

KeyFields == {"report_id", "audit_id"}

\* The records of the remote: the anchor source numbers its reports, every
\* other source holds two records per report.
RemoteKey(s, pos) == IF s = 1 THEN pos ELSE pos \div 2

\* One cell of a record as the API delivers it.  f remembers the field the
\* value was delivered under.
RemoteCell(s, pos, shape, c) ==
    IF c \in KeyFields
    THEN IF shape.ktype = "num"
         THEN [f |-> c, t |-> "num", v |-> RemoteKey(s, pos)]
         ELSE [f |-> c, t |-> "text", v |-> IntToStr(RemoteKey(s, pos))]
    ELSE [f |-> c, t |-> "num", v |-> pos]

\* A column of integers in which a record has no value: pandas holds it as
\* floats, the missing value as NaN.
Upcast(cell) == IF cell.t = "num" THEN [cell EXCEPT !.t = "float"] ELSE cell
NaN(c) == [f |-> c, t |-> "nan", v |-> 0]

\* data['results'] of a page of n records from offset from, then
\* pd.DataFrame(data['results']): the columns and the rows under them.
DataFrame(s, from, n, shape) ==
    LET holed(c) == shape.gap /\ n >= 2 /\ c \in KeyFields
    IN  [cols |-> shape.cols,
         rows |-> [j \in 1..n |->
                     [c \in 1..Len(shape.cols) |->
                         IF holed(shape.cols[c])
                         THEN IF j = n THEN NaN(shape.cols[c])
                              ELSE Upcast(RemoteCell(s, from + j - 1, shape, shape.cols[c]))
                         ELSE RemoteCell(s, from + j - 1, shape, shape.cols[c])]]]

\* ------------------------------------------------------------ configuration

\* _validate_config with the join key left out of its list.
required_settings_without_key == {"output_filename", "download_directory"}

\* The settings _validate_config requires.
required_settings == {"output_filename", "download_directory", "primary_join_key"}

\* The settings the run reads besides them.
OtherSettings == {"api_timeout_seconds", "cleanup_temp_files"}

Path(d, n, x) == [dir |-> d, name |-> n, ext |-> x]

TempDirName == "downloads"
OutputInTempDir == Path(TempDirName, "merged", "csv")
OutputElsewhere == Path(".", "merged", "gz")
ForeignFile == Path(TempDirName, "notes", "txt")

JoinKeys == {"report_id", "audit_id"}
OutputPaths == {OutputInTempDir, OutputElsewhere}

\* cleanup_temp_files: given as true, given as false, or not given.
CleanupChoices == {"true", "false", "unset"}

\* The three settings a configuration file may leave out.
ConfigurableSettings == {"output_filename", "download_directory", "primary_join_key"}

\* A settings section holding the keys K.
Settings(K, out, key, cleanup) ==
    [k \in (IF cleanup = "unset" THEN K \ {"cleanup_temp_files"} ELSE K) |->
        CASE k = "output_filename" -> out
          [] k = "download_directory" -> TempDirName
          [] k = "primary_join_key" -> key
          [] k = "cleanup_temp_files" -> (cleanup = "true")
          [] OTHER -> 30]

\* config['sources']: the anchor first.  Each holds its own api_params.
Sources(size) ==
    << [name |-> "general", url |-> "single_audits/general",
        api_params |-> [size |-> size, from |-> 0]],
       [name |-> "findings", url |-> "single_audits/findings",
        api_params |-> [size |-> size, from |-> 1]] >>

NSources == Len(Sources(1))

\* What yaml.safe_load gives for the files the model reads: a valid one for
\* each choice of its values, one for each set of required settings left
\* out, and one with no settings section.
ValidConfigs ==
    { [settings |-> Settings(ConfigurableSettings \cup OtherSettings, o, k, c),
       sources |-> Sources(z)] :
        o \in OutputPaths, k \in JoinKeys, c \in CleanupChoices, z \in 1..MaxPageSize }

InvalidConfigs ==
    { [settings |-> Settings(K \cup OtherSettings, OutputElsewhere, "report_id", "true"),
       sources |-> Sources(1)] :
        K \in (SUBSET ConfigurableSettings) \ {ConfigurableSettings} }
    \cup { [sources |-> Sources(1)] }

Configs == ValidConfigs \cup InvalidConfigs

\* ------------------------------------------------------------------- state

VARIABLES
    file,            \* the configuration file's content
    config,          \* what _load_config read from it, then self.config
    pc,              \* where the run is
    fs,              \* the file system: directories and files that exist
    tables,          \* the tables of temp.duckdb, by name
    src,             \* index of the source process_source is working on
    params,          \* fetch_data_stream's params
    chunk,           \* the batch the reader yielded, while the loader has it
    first_chunk,     \* process_source's flag
    rows_processed,  \* process_source's running total
    error,           \* the exception in flight, or the one the run ended with
    written,         \* what this run's COPY wrote to the output path
    fetches,         \* history: every request issued and what came back
    yields,          \* history: every batch a reader yielded
    ingested,        \* history: per source, the rows of the batches loaded
    cleanups         \* history: how often the finally block's cleanup ran

vars == <<file, config, pc, fs, tables, src, params, chunk, first_chunk,
          rows_processed, error, written, fetches, yields, ingested, cleanups>>

NoError == [exc |-> "none", stage |-> "none"]
Raised(exc, stage) == [exc |-> exc, stage |-> stage]

NoChunk == [cols |-> <<>>, rows |-> <<>>]
NothingWritten == [header |-> <<>>, rows |-> <<>>]
NoParams == [size |-> 0, from |-> 0]

\* self.temp_dir and self.db_path
temp_dir(cfg) == cfg.settings["download_directory"]
db_path(cfg) == Path(temp_dir(cfg), "temp", "duckdb")

\* A table: its columns (name and type, in order) and its rows.
Column(name, type) == [name |-> name, type |-> type]

\* The tables an earlier run that kept its temporary files left in
\* temp.duckdb: one old row per source.
StaleTable ==
    [cols |-> <<Column("report_id", "text"), Column("amount", "num")>>,
     rows |-> << <<[f |-> "report_id", t |-> "text", v |-> "9"],
                   [f |-> "amount", t |-> "num", v |-> 9]>> >>]

merged_table == "merged_data"

StaleTables ==
    [n \in {Sources(1)[i].name : i \in 1..NSources} \cup {merged_table} |-> StaleTable]
NoTables == [n \in {} |-> StaleTable]

\* The file systems a run starts in: the temporary directory absent, or left
\* by an earlier run with its database; a file of someone else in it or not;
\* an output file written earlier or not.
InitialFs(cfg, stale, foreign, output) ==
    LET files == (IF stale THEN {Path(TempDirName, "temp", "duckdb")} ELSE {})
                 \cup (IF foreign THEN {ForeignFile} ELSE {})
                 \cup (IF output /\ "settings" \in DOMAIN cfg
                          /\ "output_filename" \in DOMAIN cfg.settings
                       THEN {cfg.settings["output_filename"]} ELSE {})
    IN  [dirs |-> {f.dir : f \in files}, files |-> files]

\* _load_config: what yaml.safe_load read, returned as it is.
_load_config(f) == f

Init ==
    /\ file \in Configs
    /\ config = _load_config(file)
    /\ pc = "init"
    /\ \E stale \in BOOLEAN, foreign \in BOOLEAN, output \in BOOLEAN :
          /\ fs = InitialFs(config, stale, foreign, output)
          /\ tables = IF stale THEN StaleTables ELSE NoTables
    /\ src = 0
    /\ params = NoParams
    /\ chunk = NoChunk
    /\ first_chunk = TRUE
    /\ rows_processed = 0
    /\ error = NoError
    /\ written = NothingWritten
    /\ fetches = <<>>
    /\ yields = <<>>
    /\ ingested = [i \in 1..NSources |-> 0]
    /\ cleanups = 0

\* ------------------------------------------------------------ construction

\* _validate_config: the exception it raises, "none" when it returns.
\* config['settings'] is looked up first.
_validate_config(cfg) ==
    IF "settings" \notin DOMAIN cfg THEN "KeyError"
    ELSE IF \A key \in required_settings : key \in DOMAIN cfg.settings
         THEN "none"
         ELSE "ValueError"

\* process_source's first lines and the reader's, for source i.
BeginSource(i) ==
    /\ src' = i
    /\ params' = config.sources[i].api_params
    /\ first_chunk' = TRUE
    /\ rows_processed' = 0
    /\ chunk' = NoChunk

\* A constructor that leaves the directory to whoever made it.
MkDir_skipped(dirs, d) == dirs

\* temp_dir.mkdir(exist_ok=True)
MkDir(dirs, d) == dirs \cup {d}

\* FACDataPipeline(): _load_config, mkdir, duckdb.connect; then main() calls
\* merge_data, which starts on the first source.
Construct ==
    /\ pc = "init"
    /\ LET exc == _validate_config(config)
       IN  IF exc # "none"
           THEN /\ error' = Raised(exc, "config")
                /\ pc' = "done"
                /\ UNCHANGED <<fs, src, params, chunk, first_chunk, rows_processed>>
           ELSE /\ fs' = [dirs |-> MkDir(fs.dirs, temp_dir(config)),
                          files |-> fs.files \cup {db_path(config)}]
                /\ BeginSource(1)
                /\ pc' = "fetch"
                /\ UNCHANGED error
    /\ UNCHANGED <<file, config, tables, written, fetches, yields, ingested, cleanups>>

\* ------------------------------------------------------------------ reader

\* What can go wrong with requests.get, raise_for_status and response.json:
\* a failure of the transport (a timeout and a bad status end the same way)
\* and a failure to decode the answer.
FetchFailures == {"ConnectionError", "JSONDecodeError"}

\* The column fetch_data_stream converts to text.
CoercedColumn == "report_id"

\* Lines 104-106: the report_id column, when the batch has one, as text.
Coerce(df) ==
    [df EXCEPT !.rows =
        [j \in 1..Len(df.rows) |->
            [c \in 1..Len(df.cols) |->
                IF df.cols[c] = CoercedColumn
                THEN AsTypeStr(df.rows[j][c])
                ELSE df.rows[j][c]]]]

\* The reader without its test for a short page.
LastPage_never(n, size) == FALSE

\* Whether the reader stops after yielding a page of n records.
LastPage(n, size) == n < size

FetchesOf(i) == SelectSeq(fetches, LAMBDA r : r.src = i)

Fetched(i, got) ==
    Append(fetches, [src |-> i, from |-> params.from, size |-> params.size, got |-> got])

\* A driver that goes to the merge as soon as one source is through.
SourceDone_merges_at_once ==
    /\ pc' = "merge"
    /\ chunk' = NoChunk
    /\ params' = NoParams
    /\ first_chunk' = TRUE
    /\ rows_processed' = 0
    /\ UNCHANGED src

\* What process_source and merge_data do when the reader or the loader is
\* through with source src: the next source, or the merge.
SourceDone ==
    IF src < NSources
    THEN /\ BeginSource(src + 1)
         /\ pc' = "fetch"
    ELSE /\ pc' = "merge"
         /\ chunk' = NoChunk
         /\ params' = NoParams
         /\ first_chunk' = TRUE
         /\ rows_processed' = 0
         /\ UNCHANGED src

\* A reader that logs a failed request and goes on with its loop.
Fail_fetch_swallowed(exc, stage) ==
    IF stage = "fetch"
    THEN /\ error' = NoError
         /\ pc' = "fetch"
    ELSE /\ error' = Raised(exc, stage)
         /\ pc' = "finally"

\* An exception leaving the try block of merge_data: logged, re-raised, and
\* the finally block is next.
Fail(exc, stage) ==
    /\ error' = Raised(exc, stage)
    /\ pc' = "finally"

\* One turn of fetch_data_stream's loop up to its yield: the request fails,
\* or answers with no records, or with n records that are yielded.
FetchFails ==
    /\ pc = "fetch"
    /\ Len(FetchesOf(src)) < MaxFetch
    /\ \E exc \in FetchFailures :
          /\ fetches' = Fetched(src, -1)
          /\ Fail(exc, "fetch")
    /\ UNCHANGED <<file, config, fs, tables, src, params, chunk, first_chunk,
                   rows_processed, written, yields, ingested, cleanups>>

FetchEmpty ==
    /\ pc = "fetch"
    /\ Len(FetchesOf(src)) < MaxFetch
    /\ fetches' = Fetched(src, 0)
    /\ SourceDone
    /\ UNCHANGED <<file, config, fs, tables, error, written, yields, ingested, cleanups>>

FetchPage ==
    /\ pc = "fetch"
    /\ Len(FetchesOf(src)) < MaxFetch
    /\ \E n \in 1..params.size, shape \in ShapesOf(src) :
          \* the remote is finite: its last page is not a full one
          /\ Len(FetchesOf(src)) = MaxFetch - 1 => n < params.size
          /\ fetches' = Fetched(src, n)
          /\ chunk' = Coerce(DataFrame(src, params.from, n, shape))
          /\ yields' = Append(yields, [src |-> src, rows |-> n])
    /\ pc' = "load"
    /\ UNCHANGED <<file, config, fs, tables, src, params, first_chunk,
                   rows_processed, error, written, ingested, cleanups>>

\* ------------------------------------------------------------------ loader

table_name == config.sources[src].name

\* The largest number a cell of the model holds.
MaxCellValue == 99

\* DuckDB's cast of a cell to a column's type on INSERT.
CanCast(cell, type) ==
    \/ cell.t = type
    \/ type = "text"
    \/ \E n \in 0..MaxCellValue : IntToStr(n) = cell.v

Cast(cell, type) ==
    IF cell.t = type THEN cell
    ELSE IF type = "text" THEN AsTypeStr(cell)
    ELSE [cell EXCEPT !.t = "num",
                      !.v = CHOOSE n \in 0..MaxCellValue : IntToStr(n) = cell.v]

\* CREATE TABLE t AS SELECT * FROM chunk: the frame's columns, typed by the
\* values they hold, and its rows.
CreateTableAs(df) ==
    [cols |-> [c \in 1..Len(df.cols) |-> Column(df.cols[c], df.rows[1][c].t)],
     rows |-> df.rows]

\* INSERT INTO t SELECT * FROM chunk: the exception, "none" when it succeeds.
\* The columns are matched by position.
InsertError(t, df) ==
    IF Len(df.cols) # Len(t.cols) THEN "BinderException"
    ELSE IF \E j \in 1..Len(df.rows), c \in 1..Len(df.cols) :
                ~CanCast(df.rows[j][c], t.cols[c].type)
         THEN "ConversionException"
         ELSE "none"

InsertInto(t, df) ==
    [t EXCEPT !.rows = @ \o
        [j \in 1..Len(df.rows) |->
            [c \in 1..Len(df.cols) |-> Cast(df.rows[j][c], t.cols[c].type)]]]

SetTable(name, t) ==
    [n \in DOMAIN tables \cup {name} |-> IF n = name THEN t ELSE tables[n]]

DropTable(name) == [n \in DOMAIN tables \ {name} |-> tables[n]]

\* A reader that moves on by one record.
Advance_by_one(p) == [p EXCEPT !.from = @ + 1]

\* params['from'] += params['size']
Advance(p) == [p EXCEPT !.from = @ + p.size]

\* A reader whose params is the descriptor's own api_params: the update of
\* the offset lands in the configuration.
Descriptors_aliased(cfg, i, p) == [cfg EXCEPT !.sources[i].api_params = Advance(p)]

\* The configuration after the reader of source i has updated its params p:
\* params is a copy (source_config['api_params'].copy()), the configuration
\* is as it was.
Descriptors(cfg, i, p) == cfg

\* After the chunk is in the table: the running total, then the reader's
\* lines after its yield.
Loaded ==
    /\ UNCHANGED error
    /\ ingested' = [ingested EXCEPT ![src] = @ + Len(chunk.rows)]
    /\ config' = Descriptors(config, src, params)
    /\ IF LastPage(Len(chunk.rows), params.size)
       THEN SourceDone
       ELSE /\ params' = Advance(params)
            /\ rows_processed' = rows_processed + Len(chunk.rows)
            /\ first_chunk' = FALSE
            /\ chunk' = NoChunk
            /\ pc' = "fetch"
            /\ UNCHANGED src

\* The body of process_source's loop for the yielded chunk, then the reader
\* resumed after its yield: the offset moves on and a short page ends it.
Load ==
    /\ pc = "load"
    /\ IF first_chunk
       THEN /\ tables' = SetTable(table_name, CreateTableAs(chunk))
            /\ Loaded
       ELSE LET exc == InsertError(tables[table_name], chunk)
            IN  IF exc # "none"
                THEN /\ Fail(exc, "load")
                     /\ UNCHANGED <<config, tables, src, params, chunk, first_chunk,
                                    rows_processed, ingested>>
                ELSE /\ tables' = SetTable(table_name,
                                           InsertInto(tables[table_name], chunk))
                     /\ Loaded
    /\ UNCHANGED <<file, fs, written, fetches, yields, cleanups>>

\* ------------------------------------------------------------------- merge

\* The statement merge_data builds, token by token: the head, one LEFT JOIN
\* per further table, and the closing parenthesis of the WITH clause.
RECURSIVE Joins(_, _)
Joins(tbls, key) ==
    IF tbls = <<>> THEN <<>>
    ELSE <<"LEFT JOIN", Head(tbls), "USING", "(", key, ")">> \o Joins(Tail(tbls), key)

MergeQuery(tbls, key) ==
    <<"CREATE TABLE", merged_table, "AS",
      "WITH", "incremental_join", "AS", "(",
      "SELECT", "*", "FROM", tbls[1]>>
    \o Joins(Tail(tbls), key)
    \o <<")">>

\* The index of the parenthesis that closes the one opened at index i - 1,
\* 0 when none does.
RECURSIVE Closing(_, _, _)
Closing(q, i, depth) ==
    IF i > Len(q) THEN 0
    ELSE IF q[i] = "(" THEN Closing(q, i + 1, depth + 1)
    ELSE IF q[i] = ")"
         THEN IF depth = 0 THEN i ELSE Closing(q, i + 1, depth - 1)
    ELSE Closing(q, i + 1, depth)

\* SQL's CREATE TABLE t AS <query>: a query that starts with a WITH clause
\* goes on, after the clause's closing parenthesis, with the SELECT that
\* uses it.
Parses(q) ==
    /\ Len(q) >= 4
    /\ q[1] = "CREATE TABLE" /\ q[3] = "AS"
    /\ IF q[4] = "WITH"
       THEN /\ Len(q) >= 7 /\ q[6] = "AS" /\ q[7] = "("
            /\ LET close == Closing(q, 8, 0)
               IN  /\ close # 0
                   /\ close < Len(q)
                   /\ q[close + 1] = "SELECT"
       ELSE q[4] = "SELECT"

KeyIndex(t, key) == CHOOSE c \in 1..Len(t.cols) : t.cols[c].name = key
HasColumn(t, key) == \E c \in 1..Len(t.cols) : t.cols[c].name = key

NullCell(col) == [f |-> col.name, t |-> "null", v |-> 0]

\* Whether a left row and a right row have the same key.  A key compared
\* across types is compared as text.
KeysMatch(l, r) ==
    /\ l.t # "null" /\ r.t # "null"
    /\ AsTypeStr(l).v = AsTypeStr(r).v

\* The other columns of the right table, in order.
RestOf(R, key) == SelectSeq([c \in 1..Len(R.cols) |-> c], LAMBDA c : R.cols[c].name # key)

RECURSIVE JoinRows(_, _, _)
JoinRows(lrows, R, key) ==
    IF lrows = <<>> THEN <<>>
    ELSE LET l == Head(lrows)
             rest == RestOf(R, key)
             hits == SelectSeq(R.rows,
                         LAMBDA r : \E c \in 1..Len(l) :
                             l[c].f = key /\ KeysMatch(l[c], r[KeyIndex(R, key)]))
             out == IF hits = <<>>
                    THEN << l \o [i \in 1..Len(rest) |-> NullCell(R.cols[rest[i]])] >>
                    ELSE [h \in 1..Len(hits) |->
                             l \o [i \in 1..Len(rest) |-> hits[h][rest[i]]]]
         IN  out \o JoinRows(Tail(lrows), R, key)

\* L LEFT JOIN R USING (key)
LeftJoin(L, R, key) ==
    [cols |-> L.cols \o [i \in 1..Len(RestOf(R, key)) |-> R.cols[RestOf(R, key)[i]]],
     rows |-> JoinRows(L.rows, R, key)]

RECURSIVE JoinAll(_, _, _)
JoinAll(acc, names, key) ==
    IF names = <<>> THEN acc
    ELSE JoinAll(LeftJoin(acc, tables[Head(names)], key), Tail(names), key)

\* The exception the statement ends with once it has parsed, "none" when it
\* runs: every table it names exists and both sides of every join have the
\* key.
BindError(names, key) ==
    IF \E i \in 1..Len(names) : names[i] \notin DOMAIN tables THEN "CatalogException"
    ELSE IF Len(names) > 1 /\ \E i \in 1..Len(names) : ~HasColumn(tables[names[i]], key)
         THEN "BinderException"
         ELSE "none"

primary_key == config.settings["primary_join_key"]
output_path == config.settings["output_filename"]
table_names == [i \in 1..NSources |-> config.sources[i].name]

\* COPY (SELECT * FROM t) TO path WITH (FORMAT 'csv', HEADER true): the
\* column names once, then every row.
Copy(t) ==
    [header |-> [c \in 1..Len(t.cols) |-> t.cols[c].name], rows |-> t.rows]

\* merge_data from the merge query on: DROP TABLE IF EXISTS merged_data,
\* the CREATE TABLE statement, and the COPY that writes the output file.
Merge ==
    /\ pc = "merge"
    /\ LET query == MergeQuery(table_names, primary_key)
           dropped == DropTable(merged_table)
       IN  IF ~Parses(query)
           THEN /\ tables' = dropped
                /\ Fail("ParserException", "merge")
                /\ UNCHANGED <<fs, written>>
           ELSE IF BindError(table_names, primary_key) # "none"
           THEN /\ tables' = dropped
                /\ Fail(BindError(table_names, primary_key), "merge")
                /\ UNCHANGED <<fs, written>>
           ELSE /\ tables' = [n \in DOMAIN dropped \cup {merged_table} |->
                                IF n = merged_table
                                THEN JoinAll(tables[table_names[1]],
                                             Tail(table_names), primary_key)
                                ELSE dropped[n]]
                /\ \/ /\ fs' = [fs EXCEPT !.files = @ \cup {output_path}]
                      /\ written' = Copy(tables'[merged_table])
                      /\ pc' = "finally"
                      /\ UNCHANGED error
                   \/ /\ Fail("IOException", "export")
                      /\ UNCHANGED <<fs, written>>
    /\ UNCHANGED <<file, config, src, params, chunk, first_chunk, rows_processed,
                   fetches, yields, ingested, cleanups>>

\* ----------------------------------------------------------------- cleanup

\* settings.get('cleanup_temp_files', True)
cleanup_temp_files ==
    IF "cleanup_temp_files" \in DOMAIN config.settings
    THEN config.settings["cleanup_temp_files"]
    ELSE TRUE

\* temp_dir.glob('*.csv')
CsvFiles(files, dir) == {f \in files : f.dir = dir /\ f.ext = "csv"}

\* The files left once the database and the *.csv files are unlinked.
AfterUnlinks(files) ==
    (files \ {db_path(config)}) \ CsvFiles(files, temp_dir(config))

\* A removal that does not look at what the directory holds.
RmdirFails_never(files, dir) == FALSE

\* Path.rmdir removes an empty directory and raises OSError on any other.
RmdirFails(files, dir) == \E f \in files : f.dir = dir

\* The finally block of merge_data.  An exception raised in it takes the
\* place of the one in flight; then main logs and re-raises what it gets.
Finally ==
    /\ pc = "finally"
    /\ pc' = "done"
    /\ IF cleanup_temp_files
       THEN LET left == AfterUnlinks(fs.files)
            IN  /\ cleanups' = cleanups + 1
                /\ tables' = NoTables
                /\ IF temp_dir(config) \in fs.dirs /\ RmdirFails(left, temp_dir(config))
                   THEN /\ fs' = [fs EXCEPT !.files = left]
                        /\ error' = Raised("OSError", "cleanup")
                   ELSE /\ fs' = [dirs |-> fs.dirs \ {temp_dir(config)}, files |-> left]
                        /\ UNCHANGED error
       ELSE UNCHANGED <<fs, tables, error, cleanups>>
    /\ UNCHANGED <<file, config, src, params, chunk, first_chunk, rows_processed,
                   written, fetches, yields, ingested>>

\* ----------------------------------------------------------- specification

Next ==
    \/ Construct
    \/ FetchFails
    \/ FetchEmpty
    \/ FetchPage
    \/ Load
    \/ Merge
    \/ Finally

Spec == Init /\ [][Next]_vars

\* ------------------------------------------------------------------ claims

\* merge_data was called and has returned or raised.
RunEnded == pc = "done" /\ error.stage # "config"

\* The merge statement has been executed and the finally block has not.
MergeRan == pc = "finally" /\ error.stage \in {"none", "merge", "export"}

source_name(s) == config.sources[s].name

YieldsOf(s) == SelectSeq(yields, LAMBDA y : y.src = s)
PagesOf(s) == SelectSeq(fetches, LAMBDA r : r.src = s /\ r.got >= 1)

\* C1: a configuration whose settings section lacks one of output_filename,
\* download_directory and primary_join_key makes the construction of
\* FACDataPipeline fail with ValueError, and no request is ever issued for
\* it.
C1_Lacking ==
    /\ "settings" \in DOMAIN config
    /\ ~(ConfigurableSettings \subseteq DOMAIN config.settings)

C1_MissingSettingIsRefused ==
    C1_Lacking =>
        /\ fetches = <<>>
        /\ pc \in {"init", "done"}
        /\ pc = "done" => error = Raised("ValueError", "config")

C1_Witness ==
    /\ C1_Lacking
    /\ pc = "done"
    /\ error.exc = "ValueError"
    /\ "primary_join_key" \notin DOMAIN config.settings
    /\ "output_filename" \in DOMAIN config.settings

\* C2: for every source and page size, no request follows, for the same
\* source, a response with no records or with fewer records than the size
\* asked for; the batches a reader yields are the non-empty responses, one
\* batch each, so an empty response yields none and a short one is the last.
C2_NoFetchAfterLastPage ==
    /\ \A i, j \in 1..Len(fetches) :
          (i < j /\ fetches[i].src = fetches[j].src)
              => ~(0 <= fetches[i].got /\ fetches[i].got < fetches[i].size)
    /\ \A s \in 1..NSources :
          /\ Len(YieldsOf(s)) = Len(PagesOf(s))
          /\ \A k \in 1..Len(YieldsOf(s)) : YieldsOf(s)[k].rows = PagesOf(s)[k].got

C2_Witness ==
    /\ pc = "merge"
    /\ \E i \in 1..Len(fetches) :
          /\ fetches[i].src = 1
          /\ 0 < fetches[i].got /\ fetches[i].got < fetches[i].size
          /\ fetches[i].from > 0
    /\ \E i \in 1..Len(fetches) : fetches[i].src = 2 /\ fetches[i].got = 0
    /\ Len(YieldsOf(1)) = 2 /\ Len(YieldsOf(2)) = 1

\* C3: once process_source has loaded a batch for a source or has returned,
\* and until the store is discarded, the source's table holds as many rows
\* as the batches loaded for it in this run hold together.
RowCount(name) == IF name \in DOMAIN tables THEN Len(tables[name].rows) ELSE 0

C3_RowCountIsSumOfBatches ==
    \A s \in 1..NSources :
        ( /\ pc \in {"fetch", "load", "merge", "finally"}
          /\ \/ s < src
             \/ s = src /\ (pc = "merge" \/ MergeRan \/ ingested[s] > 0) )
        => RowCount(source_name(s)) = ingested[s]

\* C4: whatever settings.primary_join_key names, a batch that has that field
\* has it as text when fetch_data_stream yields it.
C4_JoinKeyIsTextWhenYielded ==
    pc = "load" =>
        \A c \in 1..Len(chunk.cols) :
            chunk.cols[c] = primary_key
                => \A j \in 1..Len(chunk.rows) : chunk.rows[j][c].t = "text"

\* C5: when every source has been loaded in this run and the join key is unique in every table
\* but the anchor's, the merge leaves a merged table with exactly one row per
\* anchor row, in which each anchor row is there and the columns of a source
\* without its key are null.
AllLoaded(key) ==
    \A s \in 1..NSources :
        /\ source_name(s) \in DOMAIN tables
        /\ ingested[s] > 0
        /\ HasColumn(tables[source_name(s)], key)

KeyOf(t, i, key) == AsTypeStr(t.rows[i][KeyIndex(t, key)]).v
KeyCount(t, key, k) == Cardinality({i \in 1..Len(t.rows) : KeyOf(t, i, key) = k})

C5_AnchorRowsPreserved ==
    ( /\ MergeRan
      /\ AllLoaded(primary_key)
      /\ \A s \in 2..NSources : \A i \in 1..Len(tables[source_name(s)].rows) :
            KeyCount(tables[source_name(s)], primary_key,
                     KeyOf(tables[source_name(s)], i, primary_key)) = 1 )
    => /\ merged_table \in DOMAIN tables
       /\ LET anchor == tables[source_name(1)]
              merged == tables[merged_table]
          IN  /\ Len(merged.rows) = Len(anchor.rows)
              /\ \A i \in 1..Len(anchor.rows) :
                    /\ SubSeq(merged.rows[i], 1, Len(anchor.cols)) = anchor.rows[i]
                    /\ (\A s \in 2..NSources :
                           KeyCount(tables[source_name(s)], primary_key,
                                    KeyOf(anchor, i, primary_key)) = 0)
                       => \A c \in (Len(anchor.cols) + 1)..Len(merged.rows[i]) :
                              merged.rows[i][c].t = "null"

\* C6: a key that is once in the anchor table and n >= 1 times in another
\* table is n times in the merged table.
C6_FanOut ==
    (MergeRan /\ AllLoaded(primary_key))
    => /\ merged_table \in DOMAIN tables
       /\ \A i \in 1..Len(tables[source_name(1)].rows) :
             LET k == KeyOf(tables[source_name(1)], i, primary_key)
                 n == KeyCount(tables[source_name(NSources)], primary_key, k)
             IN  (KeyCount(tables[source_name(1)], primary_key, k) = 1 /\ n >= 1)
                     => KeyCount(tables[merged_table], primary_key, k) = n

\* C7, as claimed: after any run of merge_data with cleanup enabled the
\* cleanup has run exactly once and the temporary directory is gone.
C7_StagingDirGone ==
    (RunEnded /\ cleanup_temp_files) =>
        /\ cleanups = 1
        /\ temp_dir(config) \notin fs.dirs

\* C7, amended: after any run of merge_data with cleanup enabled the cleanup
\* has run exactly once, and the temporary directory is gone if nothing is
\* left in it once the cleanup has deleted the database file and the *.csv
\* files; if something is left in it, the directory is still there.
C7_CleanupOnceDirGoneUnlessFilesLeft ==
    (RunEnded /\ cleanup_temp_files) =>
        /\ cleanups = 1
        /\ temp_dir(config) \in fs.dirs <=> \E f \in fs.files : f.dir = temp_dir(config)

C7_Witness ==
    /\ RunEnded
    /\ cleanup_temp_files
    /\ cleanups = 1
    /\ error.stage = "load"
    /\ temp_dir(config) \notin fs.dirs

\* C8: the cleanup leaves the output file alone: an output file that exists
\* when the finally block starts exists when it ends, wherever the output
\* path lies.
C8_CleanupKeepsOutput ==
    [][(pc = "finally" /\ output_path \in fs.files) => output_path \in fs'.files]_vars

\* C9: when a stage has raised and the cleanup fails too, merge_data still
\* raises the stage's error; and the cleanup removes the temporary directory
\* only when it is empty.
C9_OriginalErrorPropagates ==
    [][(pc = "finally" /\ error # NoError) =>
          /\ error' = error
          /\ (temp_dir(config) \in fs.dirs /\ temp_dir(config) \notin fs'.dirs)
                => ~\E f \in fs'.files : f.dir = temp_dir(config)]_vars

\* C10, as claimed: a failed request yields no batch, is the source's last
\* request, and reaches the consumer as an error that names the source and
\* the offset in progress.
C10_FetchErrorNamesSourceAndOffset ==
    \A i \in 1..Len(fetches) :
        fetches[i].got = -1 =>
            /\ i = Len(fetches)
            /\ Len(YieldsOf(fetches[i].src)) = Len(PagesOf(fetches[i].src))
            /\ pc = "finally" =>
                  /\ "source" \in DOMAIN error
                  /\ "offset" \in DOMAIN error
                  /\ error.source = source_name(fetches[i].src)
                  /\ error.offset = fetches[i].from

\* C10, amended: a failed request yields no batch, is the last request of the
\* run, and reaches the consumer as the exception the request raised, as it
\* was raised: nothing in it names the source or the offset.
C10_FetchFailureEndsReader ==
    \A i \in 1..Len(fetches) :
        fetches[i].got = -1 =>
            /\ i = Len(fetches)
            /\ Len(YieldsOf(fetches[i].src)) = Len(PagesOf(fetches[i].src))
            /\ pc \in {"finally", "done"}
            /\ pc = "finally" =>
                  /\ error.stage = "fetch"
                  /\ error.exc \in FetchFailures
                  /\ "source" \notin DOMAIN error
                  /\ "offset" \notin DOMAIN error

C10_Witness ==
    /\ pc = "finally"
    /\ error = Raised("JSONDecodeError", "fetch")
    /\ Len(fetches) = 2
    /\ fetches[2].got = -1 /\ fetches[2].from = 2
    /\ Len(yields) = 1

\* C11: a batch after the first whose fields are not all among the columns
\* the first batch gave the table is refused with an error that ends the
\* load and is never appended: in a table loaded in this run every value
\* stands under the column of the field it was delivered under.
C11_DriftingBatchIsNeverAppended ==
    \A s \in 1..NSources :
        ( /\ pc \in {"fetch", "load", "merge", "finally"}
          /\ ingested[s] > 0
          /\ source_name(s) \in DOMAIN tables )
        => LET t == tables[source_name(s)]
           IN  \A j \in 1..Len(t.rows), c \in 1..Len(t.cols) :
                   t.rows[j][c].f = t.cols[c].name

\* C12: when the table of the first source, loaded in this run, has no
\* column named by settings.primary_join_key, merge_data fails with the
\* error of a bad configuration (ValueError, as _validate_config raises),
\* leaves no merged table and writes no output.
C12_MissingKeyIsConfigurationError ==
    ( /\ MergeRan
      /\ ingested[1] > 0
      /\ table_names[1] \in DOMAIN tables
      /\ ~HasColumn(tables[table_names[1]], primary_key) )
    => /\ error.exc = "ValueError"
       /\ merged_table \notin DOMAIN tables
       /\ written = NothingWritten

\* C13: when every source has been loaded in this run and the export has
\* not failed, the merge is followed by a file at settings.output_filename
\* that holds the merged table's column names once and then each of its
\* rows once, written from the finished merged table.
C13_OutputHoldsMergedRows ==
    (MergeRan /\ AllLoaded(primary_key) /\ error.stage # "export")
    => /\ merged_table \in DOMAIN tables
       /\ output_path \in fs.files
       /\ written = Copy(tables[merged_table])
       /\ Len(written.rows) = Len(tables[merged_table].rows)

\* C14: with report_id as the join key, the key of a record is yielded as
\* the same text whether the remote delivered it as a number or as that
\* number's text: the coercion of a key k and of its text are both the
\* decimal text of k, so that the two compare equal.  Checked for every
\* record of every batch that carries a key.
C14_KeyNormalizedAlike ==
    (pc = "load" /\ primary_key = CoercedColumn)
    => \A c \in 1..Len(chunk.cols), j \in 1..Len(chunk.rows) :
           chunk.cols[c] = primary_key
           => LET k == RemoteKey(src, params.from + j - 1)
                  asNumber == [f |-> primary_key, t |-> "num", v |-> k]
                  asText == [f |-> primary_key, t |-> "text", v |-> IntToStr(k)]
              IN  \/ chunk.rows[j][c] = AsTypeStr(NaN(primary_key))
                  \/ /\ AsTypeStr(asNumber) = AsTypeStr(asText)
                     /\ chunk.rows[j][c] = AsTypeStr(asText)

\* C15: once FACDataPipeline has been constructed from a configuration that
\* passes _validate_config, and until cleanup, the directory named by
\* settings.download_directory exists and self.config holds what the
\* configuration file holds, the join key among it.
C15_ConstructedHasDirAndConfig ==
    pc \in {"fetch", "load", "merge", "finally"}
    => /\ temp_dir(config) \in fs.dirs
       /\ temp_dir(config) = file.settings["download_directory"]
       /\ config = file
       /\ primary_key = file.settings["primary_join_key"]

\* Constructed where no directory was: the directory is there, with nothing
\* but the database in it, and the join key is the file's.
C15_Witness ==
    /\ pc = "fetch"
    /\ fetches = <<>>
    /\ fs.dirs = {temp_dir(config)}
    /\ fs.files = {db_path(config)}
    /\ tables = NoTables
    /\ file.settings["primary_join_key"] = "audit_id"
    /\ primary_key = "audit_id"

\* C16: the requests of a run go through the sources in the order of the
\* configuration, each source's first request only when every batch of the
\* sources before it is in its table; the rows of a table stand in the order
\* they were fetched; the merge runs only when every source has been read to
\* its last page and loaded; an output is written only by a merge that
\* succeeded, and cleanup runs only after an output or a failure.
RECURSIVE RowsIn(_)
RowsIn(ys) == IF ys = <<>> THEN 0 ELSE Head(ys).rows + RowsIn(Tail(ys))

Exhausted(s) ==
    LET fs_s == FetchesOf(s)
    IN  /\ fs_s # <<>>
        /\ fs_s[Len(fs_s)].got \in 0..(fs_s[Len(fs_s)].size - 1)

C16_StagesInOrder ==
    /\ \A i \in 1..Len(fetches) :
          /\ i = 1 => fetches[i].src = 1
          /\ i > 1 => fetches[i].src \in {fetches[i-1].src, fetches[i-1].src + 1}
          /\ i > 1 /\ fetches[i].src # fetches[i-1].src => Exhausted(fetches[i-1].src)
    /\ pc \in {"fetch", "load", "merge", "finally"} =>
          \A s \in 1..NSources :
              /\ s < src => RowsIn(YieldsOf(s)) = ingested[s]
              /\ s = src /\ pc \in {"fetch", "merge"} => RowsIn(YieldsOf(s)) = ingested[s]
              /\ s > src => FetchesOf(s) = <<>> /\ ingested[s] = 0
              /\ ingested[s] > 0 =>
                    LET t == tables[source_name(s)]
                        first == file.sources[s].api_params.from
                    IN  \A j \in 1..Len(t.rows), c \in 1..Len(t.cols) :
                            t.rows[j][c].f = "amount" => t.rows[j][c].v = first + j - 1
    /\ pc = "merge" \/ MergeRan =>
          /\ src = NSources
          /\ chunk = NoChunk
          /\ \A s \in 1..NSources : Exhausted(s) /\ RowsIn(YieldsOf(s)) = ingested[s]
    /\ written # NothingWritten => pc \in {"finally", "done"} /\ error = NoError
    /\ pc = "finally" \/ cleanups > 0 => error # NoError \/ written # NothingWritten
    /\ cleanups > 0 => pc = "done"

\* Two batches of the first source and one of the second are in their
\* tables, and the merge is next.
C16_Witness ==
    /\ pc = "merge"
    /\ Len(FetchesOf(1)) = 2 /\ ingested[1] = 3
    /\ Len(FetchesOf(2)) = 1 /\ ingested[2] = 1
    /\ Len(tables[source_name(1)].rows) = 3

\* C17: once the fetching or the loading of a source has failed, no further
\* request is issued, no merged table is created, no output is written, and
\* the run ends with merge_data raising that error to its caller.
C17_SourceFailureEndsRun ==
    [][error.stage \in {"fetch", "load"} =>
          /\ fetches' = fetches
          /\ written' = NothingWritten
          /\ merged_table \in DOMAIN tables' =>
                merged_table \in DOMAIN tables
                    /\ tables'[merged_table] = tables[merged_table]
          /\ pc' = "done"
          /\ error' = error]_vars

\* C18: the k-th request of a source (k = 0, 1, ...) asks for the
\* descriptor's page size at the descriptor's offset plus k page sizes; the
\* reader's offset has moved on by one page size for each batch it has
\* yielded and been resumed after, and by nothing for a failed request.
C18_OffsetProgression ==
    /\ \A s \in 1..NSources :
          LET reqs == FetchesOf(s)
              first == file.sources[s].api_params.from
              size == file.sources[s].api_params.size
          IN  \A k \in 0..(Len(reqs) - 1) :
                  /\ reqs[k + 1].from = first + k * size
                  /\ reqs[k + 1].size = size
    /\ pc \in {"fetch", "load"} \/ (pc = "finally" /\ error.stage \in {"fetch", "load"}) =>
          LET first == file.sources[src].api_params.from
              size == file.sources[src].api_params.size
              resumed == IF pc = "fetch" \/ error.stage = "fetch"
                         THEN Len(PagesOf(src))
                         ELSE Len(PagesOf(src)) - 1
          IN  /\ params.size = size
              /\ params.from = first + resumed * size

\* The second request of the second source, one page size after its first.
C18_Witness ==
    /\ pc = "load"
    /\ src = NSources
    /\ params.size = MaxPageSize
    /\ Len(FetchesOf(src)) = MaxFetch
    /\ FetchesOf(src)[MaxFetch].from =
          file.sources[src].api_params.from + (MaxFetch - 1) * MaxPageSize
    /\ FetchesOf(src)[MaxFetch].from # FetchesOf(src)[1].from

\* C19: whatever requests the reader has made, failed ones among them, each
\* source's entry in the configuration has the offset, the page size, the
\* name and the url the configuration file gave it, so that a reader
\* started on it again would start at the same offset.
C19_DescriptorUnchanged ==
    Len(fetches) > 0 =>
        \A s \in 1..NSources :
            /\ config.sources[s].api_params.from = file.sources[s].api_params.from
            /\ config.sources[s].api_params.size = file.sources[s].api_params.size
            /\ config.sources[s].name = file.sources[s].name
            /\ config.sources[s].url = file.sources[s].url

\* The reader has moved its offset on, then a request failed; the
\* descriptor still has the offset it started from.
C19_Witness ==
    /\ pc = "finally"
    /\ error.stage = "fetch"
    /\ Len(FetchesOf(src)) = MaxFetch
    /\ params.from > config.sources[src].api_params.from
    /\ config.sources[src].api_params = file.sources[src].api_params

\* C20: once process_source has returned for a source, a table named after
\* the source exists and holds the rows fetched in this run and no others,
\* also when the source's first page was empty and when a table of that
\* name was there before the run.
C20_TableHoldsThisRunsRows ==
    \A s \in 1..NSources :
        ( /\ pc \in {"fetch", "load", "merge", "finally"}
          /\ s < src \/ (s = src /\ (pc = "merge" \/ MergeRan)) )
        => /\ source_name(s) \in DOMAIN tables
           /\ Len(tables[source_name(s)].rows) = ingested[s]
           /\ \A j \in 1..Len(tables[source_name(s)].rows) :
                  tables[source_name(s)].rows[j] \notin
                      {StaleTable.rows[i] : i \in 1..Len(StaleTable.rows)}

====
